---- MODULE Spec2Model ----
(***************************************************************************)
(* A model of the OpenNES CPU core (src/src/cpu.rs): the register file,    *)
(* the packed status byte, the decoder next_opcode and the loop of         *)
(* interpret.  One step of the model is one iteration of the loop of       *)
(* interpret: a decode (one or two fetches) followed by the dispatch.      *)
(*                                                                         *)
(* Rust's `+` and `+=` on u8/u16 panic on overflow when the build has      *)
(* overflow checks (the dev/test profile) and wrap when it has not (the    *)
(* release profile); overflow_checks is that property of the build.        *)
(* An index past the end of the program slice panics (bounds check).       *)
(***************************************************************************)
EXTENDS Integers, Sequences, FiniteSets

VARIABLES
    register_a,       \* CPU.register_a : u8
    register_x,       \* CPU.register_x : u8
    status,           \* CPU.status : u8
    program_counter,  \* CPU.program_counter : u16
    overflow_checks,  \* does this build check arithmetic overflow
    program,          \* the slice passed to interpret
    run_state,        \* where the call to interpret stands, or how it ended
    panic_value,      \* the byte carried by the unimplemented! panic, or -1
    fetches,          \* index operations program[..] attempted in this run
    last,             \* the operation attempted last, with the state before it
    repeat,           \* the slice passed is `program` repeated this many times
    written           \* the register the last completed instruction wrote
                      \* to, "none" before any did

vars == <<register_a, register_x, status, program_counter, overflow_checks,
          program, run_state, panic_value, fetches, last, repeat, written>>

-----------------------------------------------------------------------------
(* Bounds of the model *)

\* longest program passed to interpret
MaxLen == 3

\* the bytes programs are made of: the four opcodes, and two bytes outside
\* the opcode table that also serve as operands (0x05 and 0xFF)
ProgBytes == {0, 169, 170, 232, 5, 255}

\* values the caller stores into the public register fields
PresetVals == {0, 127, 255}

\* values of the public status field in an arbitrary processor state
StatusVals == {0, 125, 130}

Programs == UNION {[1..n -> ProgBytes] : n \in 0..MaxLen}

-----------------------------------------------------------------------------
(* u8 / u16 arithmetic and bit operations *)

U8Max == 255
U16Max == 65535

Bit(n, k) == (n \div (2^k)) % 2

\* `&` on u8
BitAnd(m, n) ==
    LET b(k) == Bit(m, k) * Bit(n, k)
    IN  b(0) + 2*b(1) + 4*b(2) + 8*b(3) + 16*b(4) + 32*b(5) + 64*b(6) + 128*b(7)

\* `|` on u8
BitOr(m, n) ==
    LET b(k) == IF Bit(m, k) + Bit(n, k) > 0 THEN 1 ELSE 0
    IN  b(0) + 2*b(1) + 4*b(2) + 8*b(3) + 16*b(4) + 32*b(5) + 64*b(6) + 128*b(7)

-----------------------------------------------------------------------------
(* Register file and flags *)

\* CPU::new
new == [register_a |-> 0, register_x |-> 0, status |-> 0, program_counter |-> 0]

\* the register file as a value
cpu == [register_a |-> register_a, register_x |-> register_x, status |-> status]

\* CPU::get_flag
get_flag(st, flag) ==
    CASE flag = "Zero"     -> BitAnd(st, 2) # 0
      [] flag = "Negative" -> BitAnd(st, 128) # 0

\* set_flag with the masks of the Zero arm one bit off (bit 2 for bit 1)
set_flag_wrong_bit(st, flag, bool) ==
    CASE flag = "Negative" -> IF bool THEN BitOr(st, 128) ELSE BitAnd(st, 127)
      [] flag = "Zero"     -> IF bool THEN BitOr(st, 4) ELSE BitAnd(st, 251)

\* set_flag whose clearing arms leave the bit as it is
set_flag_never_clears(st, flag, bool) ==
    CASE flag = "Negative" -> IF bool THEN BitOr(st, 128) ELSE st
      [] flag = "Zero"     -> IF bool THEN BitOr(st, 2) ELSE st

\* set_flag with the clearing mask of the Zero arm in both clearing arms
set_flag_one_clear_mask(st, flag, bool) ==
    CASE flag = "Negative" -> IF bool THEN BitOr(st, 128) ELSE BitAnd(st, 125)
      [] flag = "Zero"     -> IF bool THEN BitOr(st, 2) ELSE BitAnd(st, 253)

\* CPU::set_flag
set_flag(st, flag, bool) ==
    CASE flag = "Negative" -> IF bool THEN BitOr(st, 128) ELSE BitAnd(st, 127)
      [] flag = "Zero"     -> IF bool THEN BitOr(st, 2) ELSE BitAnd(st, 253)

\* set_register with the else branches lost: a flag is set, never cleared
set_register_never_clears(c, register, param) ==
    LET c1 == IF register = "A" THEN [c EXCEPT !.register_a = param]
                                ELSE [c EXCEPT !.register_x = param]
        z  == IF param = 0 THEN set_flag(c1.status, "Zero", TRUE) ELSE c1.status
        n  == IF BitAnd(param, 128) # 0 THEN set_flag(z, "Negative", TRUE) ELSE z
    IN  [c1 EXCEPT !.status = n]

\* set_register with the X arm computing the flags from register_a
set_register_flags_from_a(c, register, param) ==
    LET c1 == IF register = "A" THEN [c EXCEPT !.register_a = param]
                                ELSE [c EXCEPT !.register_x = param]
        z  == set_flag(c1.status, "Zero", c1.register_a = 0)
        n  == set_flag(z, "Negative", BitAnd(c1.register_a, 128) # 0)
    IN  [c1 EXCEPT !.status = n]

\* CPU::set_register
set_register(c, register, param) ==
    CASE register = "A" ->
            LET c1 == [c EXCEPT !.register_a = param]
                z  == set_flag(c1.status, "Zero", c1.register_a = 0)
                n  == set_flag(z, "Negative", BitAnd(c1.register_a, 128) # 0)
            IN  [c1 EXCEPT !.status = n]
      [] register = "X" ->
            LET c1 == [c EXCEPT !.register_x = param]
                z  == set_flag(c1.status, "Zero", c1.register_x = 0)
                n  == set_flag(z, "Negative", BitAnd(c1.register_x, 128) # 0)
            IN  [c1 EXCEPT !.status = n]

\* CPU::inc_register: both arms read register_a; the sum is a u8 `+`
inc_register(c, register, checks) ==
    LET sum == c.register_a + 1
    IN  IF sum > U8Max /\ checks
        THEN [panic |-> TRUE, cpu |-> c]
        ELSE [panic |-> FALSE, cpu |-> set_register(c, register, sum % (U8Max + 1))]

-----------------------------------------------------------------------------
(* Decoder *)

\* program.len(), for the slice that is prog.pattern repeated prog.repeat times
slice_len(prog) == Len(prog.pattern) * prog.repeat

\* program[i], for i < program.len()
slice_at(prog, i) == prog.pattern[(i % Len(prog.pattern)) + 1]

\* `self.program_counter += 1` on a u16
pc_inc(pc, checks) ==
    [panic |-> pc + 1 > U16Max /\ checks, value |-> (pc + 1) % (U16Max + 1)]

\* the arm 0xA9 with a missing operand read as 0 instead of panicking
decode_lda_default_operand(prog, pc1, checks) ==
    [kind |-> "LDA", param |-> IF pc1 >= slice_len(prog) THEN 0 ELSE slice_at(prog, pc1),
     pc |-> pc1 + 1, reads |-> 2]

\* the arm 0xA9 without the second `+= 1`: the operand is not stepped over
decode_lda_one_byte(prog, pc1, checks) ==
    IF pc1 >= slice_len(prog)
    THEN [kind |-> "index_panic", param |-> -1, pc |-> pc1, reads |-> 2]
    ELSE [kind |-> "LDA", param |-> slice_at(prog, pc1), pc |-> pc1, reads |-> 2]

\* next_opcode, the arm 0xA9 => ..: the operand is the byte at the program
\* counter already advanced past the opcode (pc1), and is stepped over
decode_lda(prog, pc1, checks) ==
    IF pc1 >= slice_len(prog)
    THEN [kind |-> "index_panic", param |-> -1, pc |-> pc1, reads |-> 2]
    ELSE
      LET inc2 == pc_inc(pc1, checks)
      IN  IF inc2.panic
          THEN [kind |-> "overflow_panic", param |-> -1, pc |-> pc1, reads |-> 2]
          ELSE [kind |-> "LDA", param |-> slice_at(prog, pc1), pc |-> inc2.value,
                reads |-> 2]

\* the arm value => .. decoding an unrecognized byte as BRK
decode_other_as_brk(value, pc1) ==
    [kind |-> "BRK", param |-> -1, pc |-> pc1, reads |-> 1]

\* next_opcode, the arm value => Opcode::Unknown(value)
decode_other(value, pc1) ==
    [kind |-> "Unknown", param |-> value, pc |-> pc1, reads |-> 1]

\* CPU::next_opcode: the decoded Opcode (kind, param), the program counter it
\* leaves and the number of index operations it attempted; a panic inside it
\* is returned as a kind
next_opcode(prog, pc, checks) ==
    IF pc >= slice_len(prog)
    THEN [kind |-> "index_panic", param |-> -1, pc |-> pc, reads |-> 1]
    ELSE
      LET opcode == slice_at(prog, pc)
          inc1   == pc_inc(pc, checks)
      IN  IF inc1.panic
          THEN [kind |-> "overflow_panic", param |-> -1, pc |-> pc, reads |-> 1]
          ELSE
            CASE opcode = 0 ->
                   [kind |-> "BRK", param |-> -1, pc |-> inc1.value, reads |-> 1]
              [] opcode = 169 -> decode_lda(prog, inc1.value, checks)
              [] opcode = 170 ->
                   [kind |-> "TAX", param |-> -1, pc |-> inc1.value, reads |-> 1]
              [] opcode = 232 ->
                   [kind |-> "INX", param |-> -1, pc |-> inc1.value, reads |-> 1]
              [] OTHER -> decode_other(opcode, inc1.value)

-----------------------------------------------------------------------------
(* State *)

\* the record kept in `last`: an operation and the processor state before it
Before(op, target, param) ==
    [op |-> op, target |-> target, param |-> param,
     register_a |-> register_a, register_x |-> register_x,
     status |-> status, program_counter |-> program_counter]

NoOp == [op |-> "none", target |-> "none", param |-> -1,
         register_a |-> 0, register_x |-> 0, status |-> 0, program_counter |-> 0]

\* let cpu = CPU::new();
Init ==
    /\ register_a = new.register_a
    /\ register_x = new.register_x
    /\ status = new.status
    /\ program_counter = new.program_counter
    /\ overflow_checks \in BOOLEAN
    /\ program = <<>>
    /\ run_state = "idle"
    /\ panic_value = -1
    /\ fetches = 0
    /\ last = NoOp
    /\ repeat = 1
    /\ written = "none"

\* a processor whose public fields hold any values
InitAny ==
    /\ register_a \in PresetVals
    /\ register_x \in PresetVals
    /\ status \in StatusVals
    /\ program_counter \in {0, MaxLen + 1}
    /\ overflow_checks \in BOOLEAN
    /\ program = <<>>
    /\ run_state = "idle"
    /\ panic_value = -1
    /\ fetches = 0
    /\ last = NoOp
    /\ repeat = 1
    /\ written = "none"

\* the caller assigns the public field register_a before the run
\* (cpu.register_a = 10)
PresetA(v) ==
    /\ run_state = "idle"
    /\ register_a' = v
    /\ UNCHANGED <<register_x, status, program_counter, overflow_checks,
                   program, run_state, panic_value, fetches, last, repeat,
                   written>>

\* the caller assigns the public field register_x before the run
\* (cpu.register_x = 0xff)
PresetX(v) ==
    /\ run_state = "idle"
    /\ register_x' = v
    /\ UNCHANGED <<register_a, status, program_counter, overflow_checks,
                   program, run_state, panic_value, fetches, last, repeat,
                   written>>

\* interpret without `self.program_counter = 0`
InterpretKeepsCounter(p) ==
    /\ run_state \in {"idle", "returned"}
    /\ program' = p
    /\ repeat' = 1
    /\ run_state' = "running"
    /\ panic_value' = -1
    /\ fetches' = 0
    /\ last' = Before("interpret", "none", -1)
    /\ UNCHANGED <<register_a, register_x, status, program_counter,
                   overflow_checks, written>>

\* CPU::interpret, up to the loop
Interpret(p) ==
    /\ run_state \in {"idle", "returned"}
    /\ program' = p
    /\ repeat' = 1
    /\ program_counter' = 0
    /\ run_state' = "running"
    /\ panic_value' = -1
    /\ fetches' = 0
    /\ last' = Before("interpret", "none", -1)
    /\ UNCHANGED <<register_a, register_x, status, overflow_checks, written>>

\* the slice passed to interpret
Slice == [pattern |-> program, repeat |-> repeat]

\* what next_opcode returns in the current state
Decoded == next_opcode(Slice, program_counter, overflow_checks)

\* the assignment of a register file value to the fields
Store(c) ==
    /\ register_a' = c.register_a
    /\ register_x' = c.register_x
    /\ status' = c.status

\* one iteration of the loop: Opcode::LDA(param)
ExecLDA ==
    /\ run_state = "running"
    /\ Decoded.kind = "LDA"
    /\ Store(set_register(cpu, "A", Decoded.param))
    /\ program_counter' = Decoded.pc
    /\ fetches' = fetches + Decoded.reads
    /\ last' = Before("LDA", "A", Decoded.param)
    /\ written' = "A"
    /\ UNCHANGED <<overflow_checks, program, run_state, panic_value, repeat>>

\* Opcode::TAX dispatched the wrong way round (X into A)
ExecTXA ==
    /\ run_state = "running"
    /\ Decoded.kind = "TAX"
    /\ Store(set_register(cpu, "A", cpu.register_x))
    /\ program_counter' = Decoded.pc
    /\ fetches' = fetches + Decoded.reads
    /\ last' = Before("TAX", "X", -1)
    /\ written' = "A"
    /\ UNCHANGED <<overflow_checks, program, run_state, panic_value, repeat>>

\* one iteration of the loop: Opcode::TAX
ExecTAX ==
    /\ run_state = "running"
    /\ Decoded.kind = "TAX"
    /\ Store(set_register(cpu, "X", cpu.register_a))
    /\ program_counter' = Decoded.pc
    /\ fetches' = fetches + Decoded.reads
    /\ last' = Before("TAX", "X", -1)
    /\ written' = "X"
    /\ UNCHANGED <<overflow_checks, program, run_state, panic_value, repeat>>

\* Opcode::INX dispatched to inc_register(Register::A)
ExecINA ==
    /\ run_state = "running"
    /\ Decoded.kind = "INX"
    /\ LET r == inc_register(cpu, "A", overflow_checks)
       IN  /\ ~r.panic
           /\ Store(r.cpu)
    /\ program_counter' = Decoded.pc
    /\ fetches' = fetches + Decoded.reads
    /\ last' = Before("INX", "A", -1)
    /\ written' = "A"
    /\ UNCHANGED <<overflow_checks, program, run_state, panic_value, repeat>>

\* one iteration of the loop: Opcode::INX, the addition not panicking
ExecINX ==
    /\ run_state = "running"
    /\ Decoded.kind = "INX"
    /\ LET r == inc_register(cpu, "X", overflow_checks)
       IN  /\ ~r.panic
           /\ Store(r.cpu)
    /\ program_counter' = Decoded.pc
    /\ fetches' = fetches + Decoded.reads
    /\ last' = Before("INX", "X", -1)
    /\ written' = "X"
    /\ UNCHANGED <<overflow_checks, program, run_state, panic_value, repeat>>

\* Opcode::BRK with the program counter left on the BRK byte
ExecBRKKeepsCounter ==
    /\ run_state = "running"
    /\ Decoded.kind = "BRK"
    /\ run_state' = "halted"
    /\ fetches' = fetches + Decoded.reads
    /\ last' = Before("BRK", "none", -1)
    /\ UNCHANGED <<register_a, register_x, status, program_counter,
                   overflow_checks, program, panic_value, repeat, written>>

\* Opcode::BRK without the break: the loop goes on to the next byte
ExecBRKContinues ==
    /\ run_state = "running"
    /\ Decoded.kind = "BRK"
    /\ program_counter' = Decoded.pc
    /\ fetches' = fetches + Decoded.reads
    /\ last' = Before("BRK", "none", -1)
    /\ UNCHANGED <<register_a, register_x, status, overflow_checks, program,
                   run_state, panic_value, repeat, written>>

\* one iteration of the loop: Opcode::BRK
ExecBRK ==
    /\ run_state = "running"
    /\ Decoded.kind = "BRK"
    /\ run_state' = "halted"
    /\ program_counter' = Decoded.pc
    /\ fetches' = fetches + Decoded.reads
    /\ last' = Before("BRK", "none", -1)
    /\ UNCHANGED <<register_a, register_x, status, overflow_checks, program,
                   panic_value, repeat, written>>

\* Opcode::Unknown clearing the status byte before it panics
ExecUnknownClearsStatus ==
    /\ run_state = "running"
    /\ Decoded.kind = "Unknown"
    /\ run_state' = "unimplemented_panic"
    /\ panic_value' = Decoded.param
    /\ program_counter' = Decoded.pc
    /\ fetches' = fetches + Decoded.reads
    /\ status' = 0
    /\ last' = Before("Unknown", "none", Decoded.param)
    /\ UNCHANGED <<register_a, register_x, overflow_checks, program, repeat,
                   written>>

\* one iteration of the loop: Opcode::Unknown(value), unimplemented! panics
ExecUnknown ==
    /\ run_state = "running"
    /\ Decoded.kind = "Unknown"
    /\ run_state' = "unimplemented_panic"
    /\ panic_value' = Decoded.param
    /\ program_counter' = Decoded.pc
    /\ fetches' = fetches + Decoded.reads
    /\ last' = Before("Unknown", "none", Decoded.param)
    /\ UNCHANGED <<register_a, register_x, status, overflow_checks, program,
                   repeat, written>>

\* an index into the program past its end panics, in next_opcode
PanicIndex ==
    /\ run_state = "running"
    /\ Decoded.kind = "index_panic"
    /\ run_state' = "index_panic"
    /\ program_counter' = Decoded.pc
    /\ fetches' = fetches + Decoded.reads
    /\ last' = Before("index_panic", "none", -1)
    /\ UNCHANGED <<register_a, register_x, status, overflow_checks, program,
                   panic_value, repeat, written>>

\* an addition overflows in a build with overflow checks: `+= 1` on the
\* program counter in next_opcode, or register_a + 1 in inc_register
PanicOverflow ==
    /\ run_state = "running"
    /\ \/ Decoded.kind = "overflow_panic"
       \/ /\ Decoded.kind = "INX"
          /\ inc_register(cpu, "X", overflow_checks).panic
    /\ run_state' = "overflow_panic"
    /\ program_counter' = Decoded.pc
    /\ fetches' = fetches + Decoded.reads
    /\ last' = Before(IF Decoded.kind = "INX" THEN "INX" ELSE "overflow_panic",
                      "none", -1)
    /\ UNCHANGED <<register_a, register_x, status, overflow_checks, program,
                   panic_value, repeat, written>>

\* cpu.interpret(&program), for any program
Run ==
    /\ run_state \in {"idle", "returned"}
    /\ \E p \in Programs : Interpret(p)

Next ==
    \/ \E v \in PresetVals : PresetA(v)
    \/ \E v \in PresetVals : PresetX(v)
    \/ Run
    \/ ExecLDA
    \/ ExecTAX
    \/ ExecINX
    \/ ExecBRK
    \/ ExecUnknown
    \/ PanicIndex
    \/ PanicOverflow

-----------------------------------------------------------------------------
(* The register operations called on their own, as the tests module can *)

\* a processor whose register fields and status hold any values
InitRegs ==
    /\ register_a \in PresetVals
    /\ register_x \in PresetVals
    /\ status \in StatusVals
    /\ program_counter = 0
    /\ overflow_checks \in BOOLEAN
    /\ program = <<>>
    /\ run_state = "idle"
    /\ panic_value = -1
    /\ fetches = 0
    /\ last = NoOp
    /\ repeat = 1
    /\ written = "none"

\* cpu.set_register(register, param)
WriteRegister(register, param) ==
    /\ run_state = "idle"
    /\ last.op = "none"
    /\ Store(set_register(cpu, register, param))
    /\ last' = Before("set_register", register, param)
    /\ written' = register
    /\ UNCHANGED <<program_counter, overflow_checks, program, run_state,
                   panic_value, fetches, repeat>>

\* cpu.inc_register(register), on a fresh processor or after a set_register
IncrementRegister(register) ==
    /\ run_state = "idle"
    /\ last.op \in {"none", "set_register"}
    /\ LET r == inc_register(cpu, register, overflow_checks)
       IN  /\ Store(r.cpu)
           /\ run_state' = IF r.panic THEN "overflow_panic" ELSE "idle"
    /\ last' = Before("inc_register", register, -1)
    /\ written' = IF inc_register(cpu, register, overflow_checks).panic
                  THEN written ELSE register
    /\ UNCHANGED <<program_counter, overflow_checks, program, panic_value,
                   fetches, repeat>>

\* cpu.set_flag(flag, bool); bool is recorded as 1 or 0
WriteFlag(flag, bool) ==
    /\ run_state = "idle"
    /\ last.op \in {"none", "set_flag", "get_flag"}
    /\ status' = set_flag(status, flag, bool)
    /\ last' = Before("set_flag", flag, IF bool THEN 1 ELSE 0)
    /\ UNCHANGED <<register_a, register_x, program_counter, overflow_checks,
                   program, run_state, panic_value, fetches, repeat, written>>

\* cpu.get_flag(flag); the value returned is recorded as 1 or 0
ReadFlag(flag) ==
    /\ run_state = "idle"
    /\ last.op \in {"none", "set_flag", "get_flag"}
    /\ last' = Before("get_flag", flag, IF get_flag(status, flag) THEN 1 ELSE 0)
    /\ UNCHANGED <<register_a, register_x, status, program_counter,
                   overflow_checks, program, run_state, panic_value, fetches,
                   repeat, written>>

\* cpu.set_register(register, param), for any register and any u8
Write ==
    /\ last.op = "none"
    /\ \E r \in {"A", "X"}, v \in 0..U8Max : WriteRegister(r, v)

NextRegs ==
    \/ Write
    \/ \E r \in {"A", "X"} : IncrementRegister(r)
    \/ \E f \in {"Zero", "Negative"}, b \in BOOLEAN : WriteFlag(f, b)
    \/ \E f \in {"Zero", "Negative"} : ReadFlag(f)

\* the register operations on a processor whose fields hold any values
SpecRegs == InitRegs /\ [][NextRegs]_vars

\* interpret returns to its caller after the break: the borrow of the
\* program ends and the processor is kept for the next call
Return ==
    /\ run_state = "halted"
    /\ run_state' = "returned"
    /\ program' = <<>>
    /\ fetches' = 0
    /\ last' = NoOp
    /\ UNCHANGED <<register_a, register_x, status, program_counter,
                   overflow_checks, panic_value, repeat, written>>

\* one call of interpret after another on the same processor
NextRuns ==
    \/ Next
    \/ Return

\* any number of runs, one after another, on a processor made by CPU::new
\* whose registers the caller may assign before the first run only
SpecRuns == Init /\ [][NextRuns]_vars

\* runs on a processor made by CPU::new
\* fetches followed after the first U16Max + 1 of a run
MaxRefetch == 2

\* slices as long as the range of the u16 program counter, none of whose
\* bytes ends a run: TAX repeated, and LDA 0x00 repeated
LongPrograms ==
    { [pattern |-> <<170>>, repeat |-> U16Max + 1],
      [pattern |-> <<169, 0>>, repeat |-> (U16Max + 1) \div 2] }

\* CPU::interpret, up to the loop, on a slice given as a repeated pattern
InterpretLong(s) ==
    /\ run_state = "idle"
    /\ program' = s.pattern
    /\ repeat' = s.repeat
    /\ program_counter' = 0
    /\ run_state' = "running"
    /\ panic_value' = -1
    /\ fetches' = 0
    /\ last' = Before("interpret", "none", -1)
    /\ UNCHANGED <<register_a, register_x, status, overflow_checks, written>>

\* cpu.interpret(&program), for a long program
RunLong ==
    /\ run_state = "idle"
    /\ \E s \in LongPrograms : InterpretLong(s)

\* the iterations of a run on a long program
NextLong ==
    \/ RunLong
    \/ fetches <= U16Max + MaxRefetch /\ ExecLDA
    \/ fetches <= U16Max + MaxRefetch /\ ExecTAX
    \/ PanicOverflow

\* one run of a long program on a processor made by new()
SpecLong == Init /\ [][NextLong]_vars

Spec == Init /\ [][Next]_vars

\* runs on a processor whose public fields hold any values
SpecAny == InitAny /\ [][Next]_vars

-----------------------------------------------------------------------------
(* Properties *)

\* the register file is as it was before the operation recorded in `last`
RegistersAsBefore ==
    /\ register_a = last.register_a
    /\ register_x = last.register_x
    /\ status = last.status

Panicked == run_state \in {"unimplemented_panic", "index_panic", "overflow_panic"}

OpcodeTable == {0, 169, 170, 232}

\* C1: set_register(register, v), for every v in 0..255 and either register,
\* stores v in that register, leaves the other register as it was, and leaves
\* Zero (status bit 1) set exactly when v = 0 and Negative (status bit 7) set
\* exactly when v >= 0x80, whatever the status byte held before.
C1_SetRegisterSetsFlags ==
    last.op = "set_register" =>
        /\ last.target = "A" =>
              register_a = last.param /\ register_x = last.register_x
        /\ last.target = "X" =>
              register_x = last.param /\ register_a = last.register_a
        /\ (Bit(status, 1) = 1) <=> (last.param = 0)
        /\ (Bit(status, 7) = 1) <=> (last.param >= 128)

\* 0x80 written to index_x over a status byte with both flags set
C1_Witness ==
    /\ last.op = "set_register"
    /\ last.target = "X"
    /\ last.param = 128
    /\ last.status = 130
    /\ last.register_a = 127
    /\ register_x = 128
    /\ status = 128

\* C2: after an INX instruction has executed, index_x holds the value it held
\* before the instruction plus one, modulo 256.
C2_InxIncrementsIndexX ==
    (last.op = "INX" /\ ~Panicked) =>
        register_x = (last.register_x + 1) % (U8Max + 1)

\* C3: for every accumulator value a and every prior index_x, executing INX
\* leaves index_x = (a + 1) mod 256 and the accumulator equal to a.
C3_InxReadsAccumulator ==
    last.op = "INX" =>
        /\ register_x = (last.register_a + 1) % (U8Max + 1)
        /\ register_a = last.register_a

\* C4: when the value read by inc_register is 0xFF the instruction completes
\* without a fault, writes 0x00 to index_x, sets Zero, clears Negative, and
\* the run goes on to the next instruction.
C4_IncrementWrapsWithoutFault ==
    (last.op = "INX" /\ last.register_a = U8Max) =>
        /\ run_state = "running"
        /\ register_x = 0
        /\ Bit(status, 1) = 1
        /\ Bit(status, 7) = 0

\* C5: when the byte decoded as an opcode is outside the opcode table, that
\* step ends the run in the unimplemented-opcode panic carrying the byte, with
\* one fetch and with accumulator, index_x and status untouched; and no step
\* of the run follows that panic.
C5_UnknownOpcodePanics ==
    [][ /\ ( /\ run_state = "running"
             /\ program_counter < Len(program)
             /\ program[program_counter + 1] \notin OpcodeTable )
           => /\ run_state' = "unimplemented_panic"
              /\ panic_value' = program[program_counter + 1]
              /\ fetches' = fetches + 1
              /\ UNCHANGED <<register_a, register_x, status>>
        /\ run_state # "unimplemented_panic"
      ]_vars

\* a program whose first byte is 0x05, run on a processor with both flags set
C5_Witness ==
    /\ run_state = "unimplemented_panic"
    /\ last.program_counter = 0
    /\ panic_value = 5
    /\ fetches = 1
    /\ register_a = 127
    /\ register_x = 255
    /\ status = 130

\* C6: a fetch at a program counter that is no offset of the program (the
\* opcode fetch at the end of the program, or the operand fetch of an LDA that
\* is the last byte) ends the run in the index panic, which carries no opcode
\* byte and is neither the unimplemented-opcode panic nor the normal halt;
\* the offsets read are those below the program counter, which never exceeds
\* the length of the program, and only the panicking fetch is not one of them.
C6_OutOfBoundsFetchPanics ==
    [][ /\ (run_state = "running" /\ program_counter >= Len(program))
           => /\ run_state' = "index_panic"
              /\ panic_value' = -1
              /\ UNCHANGED <<register_a, register_x, status, program_counter>>
        /\ ( /\ run_state = "running"
             /\ program_counter + 1 = Len(program)
             /\ program[program_counter + 1] = 169 )
           => /\ run_state' = "index_panic"
              /\ panic_value' = -1
              /\ UNCHANGED <<register_a, register_x, status>>
        /\ run_state' # "idle"
           => /\ program_counter' <= Len(program')
              /\ fetches' = program_counter'
                              + (IF run_state' = "index_panic" THEN 1 ELSE 0)
      ]_vars

\* LDA is the last byte of a program of two or more bytes: its operand fetch
\* panics
C6_Witness ==
    /\ run_state = "index_panic"
    /\ Len(program) >= 2
    /\ program[Len(program)] = 169
    /\ last.program_counter = Len(program) - 1
    /\ program_counter = Len(program)

\* C7: when a run has ended in a panic, accumulator, index_x and status are
\* what they were when the panicking iteration began, that is, what the last
\* completed instruction (or the caller, if none completed) left.
C7_PanicLeavesRegisterFile ==
    Panicked => RegistersAsBefore

\* an unrecognized opcode after an LDA 0xFF that set Negative
C7_Witness ==
    /\ run_state = "unimplemented_panic"
    /\ last.program_counter = 2
    /\ program[1] = 169
    /\ register_a = 255
    /\ status = 128

\* C8: a run ends in one of three ways (normal halt, unimplemented-opcode
\* panic, index panic) after at most Len(program) + 1 fetch attempts.
C8_RunEndsInOneOfThreeWays ==
    /\ run_state \in {"idle", "running", "halted", "unimplemented_panic",
                      "index_panic"}
    /\ fetches <= Len(program) + 1

\* C9: decoding LDA advances the program counter by 2 and loads the byte after
\* the opcode, whatever that byte is, and the run goes on; decoding BRK, TAX,
\* INX or an unrecognized byte advances the program counter by 1.
C9_InstructionWidths ==
    /\ last.op = "LDA" =>
          /\ program[last.program_counter + 1] = 169
          /\ program_counter = last.program_counter + 2
          /\ register_a = program[last.program_counter + 2]
          /\ run_state = "running"
    /\ last.op \in {"BRK", "TAX", "INX", "Unknown"} =>
          /\ program_counter = last.program_counter + 1
          /\ last.op = "BRK" <=> program[last.program_counter + 1] = 0
          /\ last.op = "TAX" <=> program[last.program_counter + 1] = 170
          /\ last.op = "INX" <=> program[last.program_counter + 1] = 232
          /\ last.op = "Unknown" <=>
                program[last.program_counter + 1] \notin OpcodeTable

\* LDA 0x00; BRK: the operand 0x00 does not halt, the third byte does
C9_Witness ==
    /\ run_state = "halted"
    /\ program = <<169, 0, 0>>
    /\ program_counter = 3
    /\ fetches = 3
    /\ register_a = 0

\* C10: TAX with any accumulator value a leaves index_x = a, the accumulator
\* equal to a, Zero set exactly when a = 0 and Negative set exactly when
\* a >= 0x80, whatever index_x and the flags held before.
C10_TaxCopiesAccumulator ==
    last.op = "TAX" =>
        /\ register_x = last.register_a
        /\ register_a = last.register_a
        /\ (Bit(status, 1) = 1) <=> (last.register_a = 0)
        /\ (Bit(status, 7) = 1) <=> (last.register_a >= 128)

\* TAX of 0x7F over index_x = 0xFF and a status byte with both flags set
C10_Witness ==
    /\ last.op = "TAX"
    /\ last.register_a = 127
    /\ last.register_x = 255
    /\ last.status = 130
    /\ register_x = 127
    /\ status = 0


\* C11: interpret begins by setting program_counter to 0, whatever it held,
\* and leaves accumulator, index_x and status as the caller left them; the
\* first fetch is then at offset 0.
C11_InterpretResetsOnlyCounter ==
    last.op = "interpret" =>
        /\ program_counter = 0
        /\ fetches = 0
        /\ run_state = "running"
        /\ RegistersAsBefore

\* interpret called with a nonzero program counter, nonzero registers and
\* both flags set
C11_Witness ==
    /\ last.op = "interpret"
    /\ last.program_counter = MaxLen + 1
    /\ program_counter = 0
    /\ register_a = 127
    /\ register_x = 255
    /\ status = 130


\* C12: no step of a run changes a status bit other than bit 1 (Zero) and
\* bit 7 (Negative): status & 0b0111_1101 is the same after every step as
\* before it, so it stays 0 on a processor made by new().
C12_ReservedBitsUnchanged ==
    [][BitAnd(status', 125) = BitAnd(status, 125)]_vars

\* the consequence of C12 for a processor made by new(), over any sequence
\* of runs (an invariant of SpecRuns)
ReservedBitsZero == BitAnd(status, 125) = 0

\* LDA 0xFF on a status byte with all reserved bits set and both flags
\* clear: only bit 7 is added
C12_Witness ==
    /\ last.op = "LDA"
    /\ last.status = 125
    /\ register_a = 255
    /\ status = 253

\* C13: once an instruction has written a register, at every instruction
\* boundary, also in later runs on the same processor, Zero and Negative are
\* those of the current value of the register written most recently
\* (accumulator after LDA, index_x after TAX or INX).
C13_FlagsFollowLastWrittenRegister ==
    /\ written = "A" =>
          /\ (Bit(status, 1) = 1) <=> (register_a = 0)
          /\ (Bit(status, 7) = 1) <=> (register_a >= 128)
    /\ written = "X" =>
          /\ (Bit(status, 1) = 1) <=> (register_x = 0)
          /\ (Bit(status, 7) = 1) <=> (register_x >= 128)

\* a second run begins on a processor whose earlier run ended with an INX
\* that wrapped index_x to 0 while the accumulator held 0xFF
C13_Witness ==
    /\ last.op = "interpret"
    /\ run_state = "running"
    /\ written = "X"
    /\ register_x = 0
    /\ register_a = 255
    /\ status = 2


\* C14: every iteration that does not panic fetches at the offset of the next
\* unread byte, which is below the length of the program, and leaves the
\* program counter at the next unread byte, at most the length; the iteration
\* that halts decoded a 0x00 and leaves the program counter one past it.
C14_CounterWithinProgram ==
    [][ /\ (run_state = "running" /\ run_state' \in {"running", "halted"})
           => /\ fetches = program_counter
              /\ program_counter < Len(program)
              /\ fetches' = program_counter'
              /\ program_counter' > program_counter
              /\ program_counter' <= Len(program)
        /\ (run_state = "running" /\ run_state' = "halted")
           => /\ program[program_counter + 1] = 0
              /\ program_counter' = program_counter + 1
      ]_vars

\* TAX; INX; BRK: the halt is the last byte and the counter ends at the length
C14_Witness ==
    /\ run_state = "halted"
    /\ program = <<170, 232, 0>>
    /\ last.program_counter = 2
    /\ program_counter = 3

\* C17: over any sequence of runs on a processor made by new(), Zero and
\* Negative are never both set.
C17_ZeroAndNegativeExclusive ==
    ~(Bit(status, 1) = 1 /\ Bit(status, 7) = 1)

\* a later run loads 0x00 on a processor whose earlier run left Negative set
C17_Witness ==
    /\ last.op = "LDA"
    /\ last.program_counter = 0
    /\ last.status = 128
    /\ last.register_x = 255
    /\ register_a = 0
    /\ status = 2


\* the status bit of a flag, and the other flag
FlagBit(flag) == IF flag = "Zero" THEN 1 ELSE 7
OtherFlag(flag) == IF flag = "Zero" THEN "Negative" ELSE "Zero"

\* C16: after set_flag(f, b), get_flag(f) is b, get_flag of the other flag is
\* what it was, every status bit but f's is as before, and both registers and
\* the program counter are as before; get_flag returns the flag's bit and
\* changes nothing.
C16_FlagWriteReadRoundTrip ==
    /\ last.op = "set_flag" =>
          /\ get_flag(status, last.target) = (last.param = 1)
          /\ get_flag(status, OtherFlag(last.target))
                = get_flag(last.status, OtherFlag(last.target))
          /\ \A k \in 0..7 : k # FlagBit(last.target) =>
                Bit(status, k) = Bit(last.status, k)
          /\ register_a = last.register_a
          /\ register_x = last.register_x
          /\ program_counter = last.program_counter
    /\ last.op = "get_flag" =>
          /\ (last.param = 1) <=> (Bit(last.status, FlagBit(last.target)) = 1)
          /\ RegistersAsBefore
          /\ program_counter = last.program_counter

\* Negative cleared on a status byte with both flags and a reserved bit set:
\* Zero and the reserved bit stay
C16_Witness ==
    /\ last.op = "set_flag"
    /\ last.target = "Negative"
    /\ last.param = 0
    /\ BitAnd(last.status, 130) = 130
    /\ BitAnd(last.status, 125) # 0
    /\ status = last.status - 128


\* C18: the iteration that decodes 0x00 ends the run in the normal halt with
\* one fetch, leaving accumulator, index_x and status as they were, and no
\* step of the run follows the halt: no byte after the halt is fetched.
C18_HaltLeavesRegisterFile ==
    [][ /\ ( /\ run_state = "running"
             /\ program_counter < Len(program)
             /\ program[program_counter + 1] = 0 )
           => /\ run_state' = "halted"
              /\ fetches' = fetches + 1
              /\ program_counter' = program_counter + 1
              /\ UNCHANGED <<register_a, register_x, status, program>>
        /\ run_state # "halted"
      ]_vars

\* a program that halts at its first byte, followed by bytes that would
\* panic, on a processor with both flags set
C18_Witness ==
    /\ run_state = "halted"
    /\ program = <<0, 5, 169>>
    /\ program_counter = 1
    /\ fetches = 1
    /\ register_a = 127
    /\ register_x = 255
    /\ status = 130

\* C19: an iteration of a run changes the accumulator only by executing an
\* LDA, which leaves it equal to the operand; every other iteration (TAX,
\* INX, BRK, or one that panics) leaves it as it was.  So the accumulator is
\* at every point the operand of the latest LDA of the run, or its value at
\* the start of the run.
C19_OnlyLdaWritesAccumulator ==
    [][ run_state = "running" =>
          IF /\ program_counter + 1 < Len(program)
             /\ program[program_counter + 1] = 169
          THEN register_a' = program[program_counter + 2]
          ELSE register_a' = register_a
      ]_vars

\* LDA 0x05; INX: after the INX the accumulator still holds the operand
C19_Witness ==
    /\ last.op = "INX"
    /\ program = <<169, 5, 232>>
    /\ last.register_x = 255
    /\ register_a = 5
    /\ register_x = 6


\* C20: within a run the program counter strictly increases from each
\* iteration to the next, for programs of any length: it never wraps.
C20_CounterNeverWraps ==
    [][ (run_state = "running" /\ run_state' = "running")
           => program_counter' > program_counter ]_vars

====
